---- MODULE Spec2Model ----
(***************************************************************************)
(* Farming-game backend (backend/main.py, backend/db.py): the users, plots *)
(* and inventory tables, the request handlers that change them, and the    *)
(* progression and land-expansion functions.                               *)
(***************************************************************************)
EXTENDS Integers, Sequences, FiniteSets, TLC

VARIABLES
    users,      \* table users: row id -> [username, gold, xp, level, unlocked_plots]
    plots,      \* table plots: row id -> [user_id, crop, planted_at]
    inventory,  \* table inventory, per user id: item_name -> quantity (rows that exist)
    now,        \* datetime.utcnow(), in seconds
    resp,       \* the last response: [op, detail]
    sessions    \* requests in flight, each with its own Session (get_db)

vars == <<users, plots, inventory, now, resp, sessions>>

-----------------------------------------------------------------------------
(* Bounds of the model *)

MaxTime == 120
MaxPlotId == 1
QtyCap == 2
GoldWindow == 60
XpMaxLevel == 6

-----------------------------------------------------------------------------
(* db.py: column defaults and NULLs *)

DefaultGold == 1000
DefaultXp == 0
\* main.py reads user.level and user.unlocked_plots; the columns are declared
\* in no file of backend/: "level 1" and "4 plots" are the documented defaults.
DefaultLevel == 1
DefaultUnlockedPlots == 4

None == "None"
NoTime == -1

NewUser(username) ==
    [username |-> username, gold |-> DefaultGold, xp |-> DefaultXp,
     level |-> DefaultLevel, unlocked_plots |-> DefaultUnlockedPlots]

NewPlot(user_id) == [user_id |-> user_id, crop |-> None, planted_at |-> NoTime]

-----------------------------------------------------------------------------
(* main.py: ITEM_CONFIG and the progression curve *)

ITEM_CONFIG ==
    [carrot_seed |-> [buy_price |-> 10, sell_price |-> 5, xp |-> 0],
     carrot      |-> [buy_price |-> 20, sell_price |-> 2000, xp |-> 10,
                      grow_time |-> 60, stages |-> 3],
     potato_seed |-> [buy_price |-> 20, sell_price |-> 15, xp |-> 0],
     potato      |-> [buy_price |-> 40, sell_price |-> 35, xp |-> 20,
                      grow_time |-> 90, stages |-> 3],
     wheat_seed  |-> [buy_price |-> 30, sell_price |-> 25, xp |-> 0],
     wheat       |-> [buy_price |-> 60, sell_price |-> 500, xp |-> 300,
                      grow_time |-> 120, stages |-> 4]]

\* dict.get(key, default)
dict_get(d, key, default) == IF key \in DOMAIN d THEN d[key] ELSE default

\* SeedName without the suffix: the crop's own name taken as its seed item
SeedName_same(crop) == crop

\* f"{req.crop}_seed"
SeedName(crop) == crop \o "_seed"

\* int(200 * 1.15 ** (level - 1)) in IEEE doubles, levels 1..60
\* (200 * 1.15 is 229.99999999999997, so level 2 gives 229)
EXP_TABLE ==
    <<200, 229, 264, 304, 349, 402, 462, 532, 611, 703,
      809, 930, 1070, 1230, 1415, 1627, 1871, 2152, 2475, 2846,
      3273, 3764, 4328, 4978, 5725, 6583, 7571, 8707, 10013, 11515,
      13242, 15228, 17513, 20139, 23160, 26635, 30630, 35224, 40508, 46584,
      53572, 61608, 70849, 81477, 93699, 107753, 123916, 142504, 163880, 188462,
      216731, 249241, 286627, 329621, 379064, 435924, 501313, 576510, 662986, 762434>>

exp_to_next_level(level) == EXP_TABLE[level]

\* carry with the loop test written > for >=
RECURSIVE carry_gt(_, _)
carry_gt(xp, level) ==
    IF xp > exp_to_next_level(level)
    THEN carry_gt(xp - exp_to_next_level(level), level + 1)
    ELSE [xp |-> xp, level |-> level]

\* the while loop of add_experience
RECURSIVE carry(_, _)
carry(xp, level) ==
    IF xp >= exp_to_next_level(level)
    THEN carry(xp - exp_to_next_level(level), level + 1)
    ELSE [xp |-> xp, level |-> level]

add_experience(user, amount) ==
    LET r == carry(user.xp + amount, user.level)
    IN  [user EXCEPT !.xp = r.xp, !.level = r.level]

-----------------------------------------------------------------------------
(* main.py: land expansion *)

\* calc_upgrade_cost taken at the plots already unlocked, not at the next one
calc_upgrade_cost_prev(current_plots) == 200 * (current_plots - 4) * (current_plots - 4)

calc_upgrade_cost(current_plots) == 200 * (current_plots - 3) * (current_plots - 3)

get_max_plots_by_level(level) ==
    IF level <= 2 THEN 4
    ELSE IF level <= 4 THEN 5
    ELSE IF level <= 6 THEN 6
    ELSE IF level <= 8 THEN 7
    ELSE IF level <= 10 THEN 8
    ELSE IF level <= 12 THEN 9
    ELSE IF level <= 14 THEN 10
    ELSE IF level <= 16 THEN 11
    ELSE IF level <= 18 THEN 12
    ELSE IF level <= 20 THEN 13
    ELSE IF level <= 22 THEN 14
    ELSE IF level <= 25 THEN 15
    ELSE IF level <= 28 THEN 16
    ELSE IF level <= 31 THEN 17
    ELSE IF level <= 34 THEN 18
    ELSE IF level <= 36 THEN 19
    ELSE IF level = 37 THEN 20
    ELSE IF level = 40 THEN 21
    ELSE IF level = 43 THEN 22
    ELSE IF level = 47 THEN 23
    ELSE IF level >= 50 THEN 24
    ELSE 19

-----------------------------------------------------------------------------
(* The database as one value, and the queries of the handlers *)

DB == [users |-> users, plots |-> plots, inventory |-> inventory]

\* db.query(User).get(id) / db.query(Plot).get(id) is not None
HasUser(db, user_id) == user_id \in DOMAIN db.users
HasPlot(db, plot_id) == plot_id \in DOMAIN db.plots

\* db.query(Inventory).filter_by(user_id=..., item_name=...).first() is not None
HasRow(db, user_id, item_name) ==
    /\ user_id \in DOMAIN db.inventory
    /\ item_name \in DOMAIN db.inventory[user_id]

\* user.plots
PlotsOf(db, user_id) == {p \in DOMAIN db.plots : db.plots[p].user_id = user_id}

SetQuantity(db, user_id, item_name, q) ==
    [db EXCEPT !.inventory[user_id] =
        [n \in (DOMAIN db.inventory[user_id]) \cup {item_name} |->
            IF n = item_name THEN q ELSE db.inventory[user_id][n]]]

Quantity(db, user_id, item_name) == db.inventory[user_id][item_name]

\* a handler's outcome: the database after it and the detail of its response
Out(db, detail) == [db |-> db, detail |-> detail]

RECURSIVE AddPlots(_, _, _)
AddPlots(plotTable, user_id, n) ==
    IF n <= 0 THEN plotTable
    ELSE AddPlots(Append(plotTable, NewPlot(user_id)), user_id, n - 1)

-----------------------------------------------------------------------------
(* The handlers, as functions from the database and the request to Out *)

register(db, username) ==
    IF \E u \in DOMAIN db.users : db.users[u].username = username
    THEN Out(db, "Username already registered")
    ELSE LET id == Len(db.users) + 1
             user == NewUser(username)
         IN  Out([users |-> Append(db.users, user),
                  plots |-> AddPlots(db.plots, id, user.unlocked_plots),
                  inventory |-> Append(db.inventory, <<>>)],
                 "Registered successfully")

\* get_state with the backfill loop stopping one plot short
get_state_short(db, user_id) ==
    IF ~HasUser(db, user_id)
    THEN Out(db, "User not found")
    ELSE LET missing == db.users[user_id].unlocked_plots
                            - Cardinality(PlotsOf(db, user_id))
         IN  Out([db EXCEPT !.plots = AddPlots(db.plots, user_id, missing - 1)],
                 "state")

get_state(db, user_id) ==
    IF ~HasUser(db, user_id)
    THEN Out(db, "User not found")
    ELSE LET missing == db.users[user_id].unlocked_plots
                            - Cardinality(PlotsOf(db, user_id))
         IN  Out([db EXCEPT !.plots = AddPlots(db.plots, user_id, missing)], "state")

\* plant with the seed test written < 0 for < 1
plant_lt0(db, user_id, plot_id, crop, t) ==
    IF ~HasUser(db, user_id) \/ ~HasPlot(db, plot_id)
          \/ db.plots[plot_id].user_id # user_id
    THEN Out(db, "Invalid user or plot")
    ELSE LET seed_name == SeedName(crop)
         IN  IF ~HasRow(db, user_id, seed_name)
                   \/ Quantity(db, user_id, seed_name) < 0
             THEN Out(db, "Not enough seeds")
             ELSE LET d1 == SetQuantity(db, user_id, seed_name,
                                        Quantity(db, user_id, seed_name) - 1)
                  IN  Out([d1 EXCEPT !.plots[plot_id].crop = crop,
                                     !.plots[plot_id].planted_at = t],
                          "Crop planted")

plant(db, user_id, plot_id, crop, t) ==
    IF ~HasUser(db, user_id) \/ ~HasPlot(db, plot_id)
          \/ db.plots[plot_id].user_id # user_id
    THEN Out(db, "Invalid user or plot")
    ELSE LET seed_name == SeedName(crop)
         IN  IF ~HasRow(db, user_id, seed_name)
                   \/ Quantity(db, user_id, seed_name) < 1
             THEN Out(db, "Not enough seeds")
             ELSE LET d1 == SetQuantity(db, user_id, seed_name,
                                        Quantity(db, user_id, seed_name) - 1)
                  IN  Out([d1 EXCEPT !.plots[plot_id].crop = crop,
                                     !.plots[plot_id].planted_at = t],
                          "Crop planted")

\* not_yet_ready with the comparison written <= for <
not_yet_ready_le(t, planted_at, grow_time) == t <= planted_at + grow_time

\* datetime.utcnow() < plot.planted_at + timedelta(seconds=grow_time)
not_yet_ready(t, planted_at, grow_time) == t < planted_at + grow_time

\* harvest with add_experience (and its commit) run before the readiness test
harvest_xp_first(db, user_id, plot_id, t) ==
    IF ~HasUser(db, user_id) \/ ~HasPlot(db, plot_id)
          \/ db.plots[plot_id].user_id # user_id
          \/ db.plots[plot_id].crop = None
    THEN Out(db, "Nothing to harvest")
    ELSE LET crop_name == db.plots[plot_id].crop
         IN  IF crop_name \notin DOMAIN ITEM_CONFIG
             THEN Out(db, "Invalid crop")
             ELSE LET item_info == ITEM_CONFIG[crop_name]
                      grow_time == dict_get(item_info, "grow_time", 30)
                      d1 == [db EXCEPT !.users[user_id] =
                                add_experience(@, item_info.xp)]
                  IN  IF not_yet_ready(t, db.plots[plot_id].planted_at, grow_time)
                      THEN Out(d1, "Crop not yet ready to harvest")
                      ELSE LET held == IF HasRow(d1, user_id, crop_name)
                                       THEN Quantity(d1, user_id, crop_name)
                                       ELSE 0
                               d2 == SetQuantity(d1, user_id, crop_name, held + 1)
                           IN  Out([d2 EXCEPT !.plots[plot_id].crop = None,
                                              !.plots[plot_id].planted_at = NoTime],
                                   "Crop harvested")

harvest(db, user_id, plot_id, t) ==
    IF ~HasUser(db, user_id) \/ ~HasPlot(db, plot_id)
          \/ db.plots[plot_id].user_id # user_id
          \/ db.plots[plot_id].crop = None
    THEN Out(db, "Nothing to harvest")
    ELSE LET crop_name == db.plots[plot_id].crop
         IN  IF crop_name \notin DOMAIN ITEM_CONFIG
             THEN Out(db, "Invalid crop")
             ELSE LET item_info == ITEM_CONFIG[crop_name]
                      grow_time == dict_get(item_info, "grow_time", 30)
                  IN  IF not_yet_ready(t, db.plots[plot_id].planted_at, grow_time)
                      THEN Out(db, "Crop not yet ready to harvest")
                      ELSE LET d1 == [db EXCEPT !.users[user_id] =
                                          add_experience(@, item_info.xp)]
                               held == IF HasRow(d1, user_id, crop_name)
                                       THEN Quantity(d1, user_id, crop_name)
                                       ELSE 0
                               d2 == SetQuantity(d1, user_id, crop_name, held + 1)
                           IN  Out([d2 EXCEPT !.plots[plot_id].crop = None,
                                              !.plots[plot_id].planted_at = NoTime],
                                   "Crop harvested")

buy_item(db, user_id, item_name, quantity) ==
    IF ~HasUser(db, user_id) \/ item_name \notin DOMAIN ITEM_CONFIG
    THEN Out(db, "Invalid user or item")
    ELSE LET total_cost == ITEM_CONFIG[item_name].buy_price * quantity
         IN  IF db.users[user_id].gold < total_cost
             THEN Out(db, "Not enough gold")
             ELSE LET d1 == [db EXCEPT !.users[user_id].gold = @ - total_cost]
                      held == IF HasRow(d1, user_id, item_name)
                              THEN Quantity(d1, user_id, item_name)
                              ELSE 0
                  IN  Out(SetQuantity(d1, user_id, item_name, held + quantity),
                          "Item purchased")

\* sell_item with the held-quantity test off by one
sell_item_off_by_one(db, user_id, item_name, quantity) ==
    IF ~HasUser(db, user_id) \/ item_name \notin DOMAIN ITEM_CONFIG
          \/ ~HasRow(db, user_id, item_name)
          \/ Quantity(db, user_id, item_name) < quantity - 1
    THEN Out(db, "Invalid sell request")
    ELSE LET total_earnings == ITEM_CONFIG[item_name].sell_price * quantity
             d1 == SetQuantity(db, user_id, item_name,
                               Quantity(db, user_id, item_name) - quantity)
         IN  Out([d1 EXCEPT !.users[user_id].gold = @ + total_earnings],
                 "Item sold")

sell_item(db, user_id, item_name, quantity) ==
    IF ~HasUser(db, user_id) \/ item_name \notin DOMAIN ITEM_CONFIG
          \/ ~HasRow(db, user_id, item_name)
          \/ Quantity(db, user_id, item_name) < quantity
    THEN Out(db, "Invalid sell request")
    ELSE LET total_earnings == ITEM_CONFIG[item_name].sell_price * quantity
             d1 == SetQuantity(db, user_id, item_name,
                               Quantity(db, user_id, item_name) - quantity)
         IN  Out([d1 EXCEPT !.users[user_id].gold = @ + total_earnings],
                 "Item sold")

\* upgrade_land with the level test written > for >=
upgrade_land_gt(db, user_id) ==
    IF ~HasUser(db, user_id)
    THEN Out(db, "User not found")
    ELSE LET user == db.users[user_id]
             max_allowed == get_max_plots_by_level(user.level)
         IN  IF user.unlocked_plots > max_allowed
             THEN Out(db, "LevelOrLandFull")
             ELSE LET cost == calc_upgrade_cost(user.unlocked_plots + 1)
                  IN  IF user.gold < cost
                      THEN Out(db, "NotEnoughGold")
                      ELSE Out([db EXCEPT !.users[user_id].gold = @ - cost,
                                          !.users[user_id].unlocked_plots = @ + 1,
                                          !.plots = Append(@, NewPlot(user_id))],
                               "Land upgraded")

\* details: "LevelOrLandFull" is the handler's 400 for unlocked_plots >= max_allowed,
\* "NotEnoughGold" its 400 for gold < cost
upgrade_land(db, user_id) ==
    IF ~HasUser(db, user_id)
    THEN Out(db, "User not found")
    ELSE LET user == db.users[user_id]
             max_allowed == get_max_plots_by_level(user.level)
         IN  IF user.unlocked_plots >= max_allowed
             THEN Out(db, "LevelOrLandFull")
             ELSE LET cost == calc_upgrade_cost(user.unlocked_plots + 1)
                  IN  IF user.gold < cost
                      THEN Out(db, "NotEnoughGold")
                      ELSE Out([db EXCEPT !.users[user_id].gold = @ - cost,
                                          !.users[user_id].unlocked_plots = @ + 1,
                                          !.plots = Append(@, NewPlot(user_id))],
                               "Land upgraded")

update_gold(db, user_id, gold) ==
    IF ~HasUser(db, user_id)
    THEN Out(db, "No such user")
    ELSE Out([db EXCEPT !.users[user_id].gold = gold], "Gold updated")

-----------------------------------------------------------------------------
(* Requests: the values a client may send *)

UserNames == {"ann"}
UserIds == 0..1
PlotIds == 0..MaxPlotId
CropNames == {"carrot", "carrot_seed", "rock"}
BuyNames == {"carrot_seed", "carrot", "rock"}
Quantities == {-1, 0, 1, 2}
TickSteps == {60}

\* requests are sent while gold and quantities are within the bounds of the model
InBounds(db) ==
    /\ \A u \in DOMAIN db.users :
           /\ db.users[u].gold <= DefaultGold + GoldWindow
           /\ db.users[u].gold >= DefaultGold - GoldWindow
    /\ \A u \in DOMAIN db.inventory : \A n \in DOMAIN db.inventory[u] :
           db.inventory[u][n] <= QtyCap /\ db.inventory[u][n] >= 0

\* the handler's db.commit() and its response
Commit(out, op) ==
    /\ users' = out.db.users
    /\ plots' = out.db.plots
    /\ inventory' = out.db.inventory
    /\ resp' = [op |-> op, detail |-> out.detail]
    /\ UNCHANGED <<now, sessions>>

-----------------------------------------------------------------------------
(* Actions: one per handler *)

Register(username) ==
    /\ InBounds(DB)
    /\ Commit(register(DB, username), "register")

GetState(user_id) ==
    /\ InBounds(DB)
    /\ Commit(get_state(DB, user_id), "get_state")

Plant(user_id, plot_id, crop) ==
    /\ InBounds(DB)
    /\ Commit(plant(DB, user_id, plot_id, crop, now), "plant")

Harvest(user_id, plot_id) ==
    /\ InBounds(DB)
    /\ Commit(harvest(DB, user_id, plot_id, now), "harvest")

Buy(user_id, item_name, quantity) ==
    /\ InBounds(DB)
    /\ Commit(buy_item(DB, user_id, item_name, quantity), "buy")

Sell(user_id, item_name, quantity) ==
    /\ InBounds(DB)
    /\ Commit(sell_item(DB, user_id, item_name, quantity), "sell")

UpgradeLand(user_id) ==
    /\ InBounds(DB)
    /\ Commit(upgrade_land(DB, user_id), "upgrade_land")

UpdateGold(user_id, gold) ==
    /\ InBounds(DB)
    /\ Commit(update_gold(DB, user_id, gold), "update_gold")

\* wall-clock time passes
Tick(d) ==
    /\ now + d <= MaxTime
    /\ now' = now + d
    /\ UNCHANGED <<users, plots, inventory, resp, sessions>>

NoResp == [op |-> "none", detail |-> "none"]

Init ==
    /\ users = <<>>
    /\ plots = <<>>
    /\ inventory = <<>>
    /\ now = 0
    /\ resp = NoResp
    /\ sessions = <<>>

Next ==
    \/ \E n \in UserNames : Register(n)
    \/ \E u \in UserIds : GetState(u)
    \/ \E u \in UserIds, p \in PlotIds, c \in CropNames : Plant(u, p, c)
    \/ \E u \in UserIds, p \in PlotIds : Harvest(u, p)
    \/ \E u \in UserIds, i \in BuyNames, q \in Quantities : Buy(u, i, q)
    \/ \E u \in UserIds, i \in BuyNames, q \in Quantities : Sell(u, i, q)
    \/ \E u \in UserIds : UpgradeLand(u)
    \/ \E d \in TickSteps : Tick(d)

Spec == Init /\ [][Next]_vars

\* the same with the admin endpoint
AdminGold == {0, 1000}

NextAdmin ==
    \/ Next
    \/ \E u \in UserIds, g \in AdminGold : UpdateGold(u, g)

SpecAdmin == Init /\ [][NextAdmin]_vars

-----------------------------------------------------------------------------
(* The plot lifecycle under a one-second clock: a registered player who has  *)
(* bought one seed of each crop plants, waits and harvests.                  *)

EmptyDB == [users |-> <<>>, plots |-> <<>>, inventory |-> <<>>]

\* register("ann"); buy 1 carrot_seed; buy 1 potato_seed; buy 1 wheat_seed
SeededDB ==
    LET d0 == register(EmptyDB, "ann").db
        d1 == buy_item(d0, 1, "carrot_seed", 1).db
        d2 == buy_item(d1, 1, "potato_seed", 1).db
    IN  buy_item(d2, 1, "wheat_seed", 1).db

InitTime ==
    /\ users = SeededDB.users
    /\ plots = SeededDB.plots
    /\ inventory = SeededDB.inventory
    /\ now = 0
    /\ resp = NoResp
    /\ sessions = <<>>

TimeCrops == {"carrot", "potato", "wheat"}
TimePlotIds == {1}
TimeSteps == {1, 30}

NextTime ==
    \/ \E p \in TimePlotIds, c \in TimeCrops : Plant(1, p, c)
    \/ \E p \in TimePlotIds : Harvest(1, p)
    \/ \E d \in TimeSteps : Tick(d)

SpecTime == InitTime /\ [][NextTime]_vars

-----------------------------------------------------------------------------
(* The progression curve alone: add_experience applied to a new player with  *)
(* the xp of catalog items, as harvest applies it.                           *)

XpGrants == {ITEM_CONFIG[i].xp : i \in DOMAIN ITEM_CONFIG}

GrantXp(user_id, amount) ==
    /\ HasUser(DB, user_id)
    /\ add_experience(users[user_id], amount).level <= XpMaxLevel
    /\ users' = [users EXCEPT ![user_id] = add_experience(@, amount)]
    /\ resp' = [op |-> "add_experience", detail |-> "committed"]
    /\ UNCHANGED <<plots, inventory, now, sessions>>

InitXp ==
    /\ users = register(EmptyDB, "ann").db.users
    /\ plots = register(EmptyDB, "ann").db.plots
    /\ inventory = register(EmptyDB, "ann").db.inventory
    /\ now = 0
    /\ resp = NoResp
    /\ sessions = <<>>

NextXp == \E a \in XpGrants : GrantXp(1, a)

SpecXp == InitXp /\ [][NextXp]_vars

-----------------------------------------------------------------------------
(* The level cap alone: get_max_plots_by_level evaluated at two levels.      *)

Levels == 1..60

MaxPlotsAt(a, b) ==
    /\ resp' = [op |-> "get_max_plots_by_level",
                detail |-> [a |-> a, b |-> b,
                            max_a |-> get_max_plots_by_level(a),
                            max_b |-> get_max_plots_by_level(b)]]
    /\ UNCHANGED <<users, plots, inventory, now, sessions>>

NextPlots == \E a \in Levels, b \in Levels : MaxPlotsAt(a, b)

SpecPlots == InitXp /\ [][NextPlots]_vars

-----------------------------------------------------------------------------
(* A late player: level 37, 20 plots.  The state follows register by 778     *)
(* rounds of (buy 1 wheat_seed, plant, harvest after 120 s, sell 1 wheat),   *)
(* with upgrade_land taken whenever it succeeds, and then by buying and      *)
(* selling back carrot_seed until gold is 1000 again.                        *)

LateDB ==
    [users |-> <<[username |-> "ann", gold |-> 1000, xp |-> 30545,
                  level |-> 37, unlocked_plots |-> 20]>>,
     plots |-> AddPlots(<<>>, 1, 20),
     inventory |-> <<[wheat_seed |-> 0, wheat |-> 0, carrot_seed |-> 0]>>]

InitLate ==
    /\ users = LateDB.users
    /\ plots = LateDB.plots
    /\ inventory = LateDB.inventory
    /\ now = 0
    /\ resp = NoResp
    /\ sessions = <<>>

LatePlotIds == {1, 2}

NextLate ==
    \/ \E q \in {1, 2} : Buy(1, "wheat_seed", q)
    \/ \E p \in LatePlotIds : Plant(1, p, "wheat")
    \/ \E p \in LatePlotIds : Harvest(1, p)
    \/ UpgradeLand(1)
    \/ \E d \in TickSteps : Tick(d)

SpecLate == InitLate /\ [][NextLate]_vars

-----------------------------------------------------------------------------
(* Requests in flight.  Every request has a Session of its own (get_db); the *)
(* handler's queries load rows into it, its assignments change the loaded    *)
(* objects, and db.commit() writes the changed attributes back.  Sync        *)
(* handlers run on worker threads, so the steps of two requests interleave.  *)

SessionIds == {1, 2}
ConcOps == {"buy", "sell"}
ConcItems == {"carrot_seed"}
ConcQuantities == {1, 2}

Idle == [pc |-> "idle"]

\* register("ann"); buy 2 carrot_seed
ConcDB == buy_item(register(EmptyDB, "ann").db, 1, "carrot_seed", 2).db

InitConc ==
    /\ users = ConcDB.users
    /\ plots = ConcDB.plots
    /\ inventory = ConcDB.inventory
    /\ now = 0
    /\ resp = NoResp
    /\ sessions = [s \in SessionIds |-> Idle]

\* the request arrives: get_db opens the Session
Begin(s, op, user_id, item_name, quantity) ==
    /\ sessions[s].pc = "idle"
    /\ sessions' = [sessions EXCEPT ![s] =
          [pc |-> "open", op |-> op, user_id |-> user_id,
           item_name |-> item_name, quantity |-> quantity]]
    /\ UNCHANGED <<users, plots, inventory, now, resp>>

\* user = db.query(User).get(req.user_id)
ReadUser(s) ==
    /\ sessions[s].pc = "open"
    /\ sessions' = [sessions EXCEPT ![s] =
          [pc |-> "user_read", op |-> @.op, user_id |-> @.user_id,
           item_name |-> @.item_name, quantity |-> @.quantity,
           users_seen |-> users]]
    /\ UNCHANGED <<users, plots, inventory, now, resp>>

\* inventory_item = db.query(Inventory).filter_by(...).first()
ReadInventory(s) ==
    /\ sessions[s].pc = "user_read"
    /\ sessions' = [sessions EXCEPT ![s] =
          [pc |-> "inventory_read", op |-> @.op, user_id |-> @.user_id,
           item_name |-> @.item_name, quantity |-> @.quantity,
           users_seen |-> @.users_seen, inventory_seen |-> inventory]]
    /\ UNCHANGED <<users, plots, inventory, now, resp>>

\* what the handler computes from the rows its Session loaded
SessionOut(ss) ==
    LET seen == [users |-> ss.users_seen, plots |-> <<>>,
                 inventory |-> ss.inventory_seen]
    IN  IF ss.op = "buy"
        THEN buy_item(seen, ss.user_id, ss.item_name, ss.quantity)
        ELSE sell_item(seen, ss.user_id, ss.item_name, ss.quantity)

Succeeded(out) == out.detail \in {"Item purchased", "Item sold"}

\* db.commit(): UPDATE users SET gold, UPDATE (or INSERT) inventory SET quantity,
\* with the values of the Session's objects; an HTTPException writes nothing
Flush(s) ==
    /\ sessions[s].pc = "inventory_read"
    /\ LET ss == sessions[s]
           out == SessionOut(ss)
           d1 == [DB EXCEPT !.users[ss.user_id].gold =
                               out.db.users[ss.user_id].gold]
           d2 == SetQuantity(d1, ss.user_id, ss.item_name,
                             Quantity(out.db, ss.user_id, ss.item_name))
       IN  /\ users' = IF Succeeded(out) THEN d2.users ELSE users
           /\ inventory' = IF Succeeded(out) THEN d2.inventory ELSE inventory
           /\ resp' = [op |-> ss.op, detail |-> out.detail]
           /\ sessions' = [sessions EXCEPT ![s] =
                 [pc |-> "done", op |-> ss.op, user_id |-> ss.user_id,
                  item_name |-> ss.item_name, quantity |-> ss.quantity]]
    /\ UNCHANGED <<plots, now>>

NextConc ==
    \/ \E s \in SessionIds, op \in ConcOps, i \in ConcItems, q \in ConcQuantities :
          Begin(s, op, 1, i, q)
    \/ \E s \in SessionIds : ReadUser(s)
    \/ \E s \in SessionIds : ReadInventory(s)
    \/ \E s \in SessionIds : Flush(s)

SpecConc == InitConc /\ [][NextConc]_vars

-----------------------------------------------------------------------------
(* The shop and the field of one player: buy, sell and plant requests of     *)
(* player 1 ("ann"), with unknown users and plots and a plot of another      *)
(* player ("bob") among the requests.                                        *)

\* register("ann"); register("bob")
ShopDB == register(register(EmptyDB, "ann").db, "bob").db

InitShop ==
    /\ users = ShopDB.users
    /\ plots = ShopDB.plots
    /\ inventory = ShopDB.inventory
    /\ now = 0
    /\ resp = NoResp
    /\ sessions = <<>>

\* the plot ids of the requests: PlotIds and one plot of player 2
ShopPlotIds == PlotIds \cup {CHOOSE p \in PlotsOf(ShopDB, 2) : TRUE}

NextShop ==
    \/ \E u \in UserIds, i \in BuyNames, q \in Quantities : Buy(u, i, q)
    \/ \E u \in UserIds, i \in BuyNames, q \in Quantities : Sell(u, i, q)
    \/ \E u \in UserIds, p \in ShopPlotIds, c \in CropNames : Plant(u, p, c)
    \/ \E d \in TickSteps : Tick(d)

SpecShop == InitShop /\ [][NextShop]_vars

-----------------------------------------------------------------------------
(* Land: register, get_state and upgrade_land at any gold balance.  register *)
(* commits twice, the user row first and the plots of the user afterwards,   *)
(* so another request may be served between the two.  Levels rise with the   *)
(* xp of wheat harvests; the admin endpoint sets the balance.                *)

LandGold == {0, 799, 800, 1000000}
LandGrants == {ITEM_CONFIG["wheat"].xp}

InitLand ==
    /\ users = <<>>
    /\ plots = <<>>
    /\ inventory = <<>>
    /\ now = 0
    /\ resp = NoResp
    /\ sessions = <<>>

\* register up to its first db.commit(): the duplicate check and the user row
RegisterUser(username) ==
    /\ sessions = <<>>
    /\ IF \E u \in DOMAIN users : users[u].username = username
       THEN /\ resp' = [op |-> "register", detail |-> "Username already registered"]
            /\ UNCHANGED <<users, inventory, sessions>>
       ELSE /\ users' = Append(users, NewUser(username))
            /\ inventory' = Append(inventory, <<>>)
            /\ sessions' = <<[op |-> "register", user_id |-> Len(users) + 1]>>
            /\ UNCHANGED resp
    /\ UNCHANGED <<plots, now>>

\* register from db.refresh(user) on: the plot loop, the second db.commit()
RegisterPlots ==
    /\ sessions # <<>>
    /\ LET id == sessions[1].user_id
       IN  plots' = AddPlots(plots, id, users[id].unlocked_plots)
    /\ resp' = [op |-> "register", detail |-> "Registered successfully"]
    /\ sessions' = <<>>
    /\ UNCHANGED <<users, inventory, now>>

LandGetState(user_id) ==
    /\ user_id \in UserIds
    /\ Commit(get_state(DB, user_id), "get_state")

LandUpgrade(user_id) ==
    /\ user_id \in UserIds
    /\ Commit(upgrade_land(DB, user_id), "upgrade_land")

LandUpdateGold(user_id, gold) ==
    /\ user_id \in UserIds
    /\ Commit(update_gold(DB, user_id, gold), "update_gold")

NextLand ==
    \/ \E n \in UserNames : RegisterUser(n)
    \/ RegisterPlots
    \/ \E u \in UserIds : LandGetState(u)
    \/ \E u \in UserIds : LandUpgrade(u)
    \/ \E u \in UserIds, g \in LandGold : LandUpdateGold(u, g)
    \/ \E a \in LandGrants : GrantXp(1, a)

SpecLand == InitLand /\ [][NextLand]_vars

-----------------------------------------------------------------------------
(* Harvest requests in flight.  harvest loads the user and the plot, tests   *)
(* them, commits the xp inside add_experience, and only then queries the     *)
(* inventory and commits the credited crop and the cleared plot.             *)

\* register("ann"); buy 2 carrot_seed and 1 carrot; plant carrot on plots 1, 2 at 0
HarvestDB ==
    LET d0 == register(EmptyDB, "ann").db
        d1 == buy_item(d0, 1, "carrot_seed", 2).db
        d2 == buy_item(d1, 1, "carrot", 1).db
        d3 == plant(d2, 1, 1, "carrot", 0).db
    IN  plant(d3, 1, 2, "carrot", 0).db

HarvestPlotIds == {1, 2}

\* the carrots are ripe
InitHarvest ==
    /\ users = HarvestDB.users
    /\ plots = HarvestDB.plots
    /\ inventory = HarvestDB.inventory
    /\ now = ITEM_CONFIG["carrot"].grow_time
    /\ resp = NoResp
    /\ sessions = [s \in SessionIds |-> Idle]

\* the request arrives: get_db opens the Session
HarvestBegin(s, user_id, plot_id) ==
    /\ sessions[s].pc = "idle"
    /\ sessions' = [sessions EXCEPT ![s] =
          [pc |-> "open", user_id |-> user_id, plot_id |-> plot_id]]
    /\ UNCHANGED <<users, plots, inventory, now, resp>>

\* user = db.query(User).get(...); plot = db.query(Plot).get(...)
HarvestRead(s) ==
    /\ sessions[s].pc = "open"
    /\ sessions' = [sessions EXCEPT ![s] =
          [pc |-> "rows_read", user_id |-> @.user_id, plot_id |-> @.plot_id,
           users_seen |-> users, plots_seen |-> plots]]
    /\ UNCHANGED <<users, plots, inventory, now, resp>>

\* the tests of harvest on the loaded rows, then add_experience: the Session's
\* user gets xp and level from the loaded values, and db.commit() writes the
\* attributes that changed
HarvestGrantXp(s) ==
    /\ sessions[s].pc = "rows_read"
    /\ LET ss == sessions[s]
           u == ss.user_id
           p == ss.plot_id
           seen == [users |-> ss.users_seen, plots |-> ss.plots_seen]
           finished == [pc |-> "done", user_id |-> u, plot_id |-> p]
       IN  IF ~HasUser(seen, u) \/ ~HasPlot(seen, p)
                 \/ seen.plots[p].user_id # u \/ seen.plots[p].crop = None
           THEN /\ resp' = [op |-> "harvest", detail |-> "Nothing to harvest"]
                /\ sessions' = [sessions EXCEPT ![s] = finished]
                /\ UNCHANGED users
           ELSE LET crop_name == seen.plots[p].crop
                IN  IF crop_name \notin DOMAIN ITEM_CONFIG
                    THEN /\ resp' = [op |-> "harvest", detail |-> "Invalid crop"]
                         /\ sessions' = [sessions EXCEPT ![s] = finished]
                         /\ UNCHANGED users
                    ELSE LET item_info == ITEM_CONFIG[crop_name]
                             grow_time == dict_get(item_info, "grow_time", 30)
                             loaded == seen.users[u]
                             grown == add_experience(loaded, item_info.xp)
                         IN  IF not_yet_ready(now, seen.plots[p].planted_at, grow_time)
                             THEN /\ resp' = [op |-> "harvest",
                                              detail |-> "Crop not yet ready to harvest"]
                                  /\ sessions' = [sessions EXCEPT ![s] = finished]
                                  /\ UNCHANGED users
                             ELSE /\ users' = [users EXCEPT
                                        ![u].xp = IF grown.xp # loaded.xp
                                                  THEN grown.xp ELSE @,
                                        ![u].level = IF grown.level # loaded.level
                                                     THEN grown.level ELSE @]
                                  /\ sessions' = [sessions EXCEPT ![s] =
                                        [pc |-> "xp_committed", user_id |-> u,
                                         plot_id |-> p, crop_name |-> crop_name]]
                                  /\ UNCHANGED resp
    /\ UNCHANGED <<plots, inventory, now>>

\* crop_item = db.query(Inventory).filter_by(...).first()
HarvestReadInventory(s) ==
    /\ sessions[s].pc = "xp_committed"
    /\ sessions' = [sessions EXCEPT ![s] =
          [pc |-> "inventory_read", user_id |-> @.user_id, plot_id |-> @.plot_id,
           crop_name |-> @.crop_name, inventory_seen |-> inventory]]
    /\ UNCHANGED <<users, plots, inventory, now, resp>>

\* crop_item.quantity += 1; plot.crop = None; plot.planted_at = None; db.commit()
HarvestCommit(s) ==
    /\ sessions[s].pc = "inventory_read"
    /\ LET ss == sessions[s]
           seen == [inventory |-> ss.inventory_seen]
           held == IF HasRow(seen, ss.user_id, ss.crop_name)
                   THEN Quantity(seen, ss.user_id, ss.crop_name)
                   ELSE 0
       IN  /\ inventory' = SetQuantity(DB, ss.user_id, ss.crop_name, held + 1).inventory
           /\ plots' = [plots EXCEPT ![ss.plot_id].crop = None,
                                     ![ss.plot_id].planted_at = NoTime]
           /\ sessions' = [sessions EXCEPT ![s] =
                 [pc |-> "done", user_id |-> ss.user_id, plot_id |-> ss.plot_id]]
    /\ resp' = [op |-> "harvest", detail |-> "Crop harvested"]
    /\ UNCHANGED <<users, now>>

NextHarvest ==
    \/ \E s \in SessionIds, p \in HarvestPlotIds : HarvestBegin(s, 1, p)
    \/ \E s \in SessionIds : HarvestRead(s)
    \/ \E s \in SessionIds : HarvestGrantXp(s)
    \/ \E s \in SessionIds : HarvestReadInventory(s)
    \/ \E s \in SessionIds : HarvestCommit(s)

SpecHarvest == InitHarvest /\ [][NextHarvest]_vars

-----------------------------------------------------------------------------
(* Claims *)

Planted(p) == p \in DOMAIN plots /\ plots[p].crop # None

\* C1 (as claimed): a plant request on a plot that already holds a crop fails
\* and leaves the plot's crop, its planting timestamp and the seeds unchanged.
C1_PlantOnlyFromEmpty ==
    [][\A u \in UserIds, p \in PlotIds, c \in CropNames :
          (Plant(u, p, c) /\ Planted(p) /\ plots[p].user_id = u)
              => /\ resp'.detail # "Crop planted"
                 /\ plots'[p] = plots[p]
                 /\ inventory' = inventory]_vars

\* C2: a harvest by the owner of a planted plot fails with "Crop not yet ready
\* to harvest", changing nothing, when now - planted_at < grow_time of the crop,
\* and succeeds (the plot is cleared) when now - planted_at >= grow_time.
C2_HarvestAtGrowTime ==
    [][\A p \in TimePlotIds :
          (Harvest(1, p) /\ Planted(p) /\ plots[p].user_id = 1)
              => LET grow_time == ITEM_CONFIG[plots[p].crop].grow_time
                     elapsed == now - plots[p].planted_at
                 IN  IF elapsed < grow_time
                     THEN /\ resp'.detail = "Crop not yet ready to harvest"
                          /\ UNCHANGED <<users, plots, inventory>>
                     ELSE /\ resp'.detail = "Crop harvested"
                          /\ plots'[p].crop = None]_vars

\* C2 witness: a harvest one second before grow_time has just been refused
C2_Witness ==
    /\ resp = [op |-> "harvest", detail |-> "Crop not yet ready to harvest"]
    /\ \E p \in DOMAIN plots :
          /\ plots[p].crop = "wheat"
          /\ now - plots[p].planted_at = ITEM_CONFIG["wheat"].grow_time - 1
          /\ plots[p].planted_at > 0

\* C3 (as claimed): every player's gold balance is non-negative.
C3_GoldNonNegative == \A u \in DOMAIN users : users[u].gold >= 0

\* C4 (as claimed): every inventory entry's quantity is non-negative.
C4_QuantityNonNegative ==
    \A u \in DOMAIN inventory : \A n \in DOMAIN inventory[u] : inventory[u][n] >= 0

\* C5 (as claimed): a player's unlocked_plots never exceeds
\* get_max_plots_by_level of the player's current level.
C5_PlotsWithinLevelCap ==
    \A u \in DOMAIN users :
        users[u].unlocked_plots <= get_max_plots_by_level(users[u].level)

\* the last level at or below l that the table of get_max_plots_by_level defines
Breakpoint(l) ==
    IF l \in 38..39 THEN 37
    ELSE IF l \in 41..42 THEN 40
    ELSE IF l \in 44..46 THEN 43
    ELSE IF l \in 48..49 THEN 47
    ELSE l

\* C6 (as claimed): get_max_plots_by_level is non-decreasing over levels 1..60,
\* and a level the table leaves out takes the value of the breakpoint below it.
C6_MaxPlotsNonDecreasing ==
    resp.op = "get_max_plots_by_level"
        => /\ resp.detail.a <= resp.detail.b
                  => resp.detail.max_a <= resp.detail.max_b
           /\ resp.detail.max_a = get_max_plots_by_level(Breakpoint(resp.detail.a))

RECURSIVE Pow(_, _)
Pow(b, k) == IF k = 0 THEN 1 ELSE b * Pow(b, k - 1)

\* floor(200 * 1.15^(n-1)) in exact arithmetic: 200 * 23^k / 20^k with k = n - 1
\* (for k >= 2 the fraction is 23^k / (2 * 20^(k-2)), which keeps to 32 bits)
requirement(n) ==
    LET k == n - 1
    IN  IF k < 2 THEN (200 * Pow(23, k)) \div Pow(20, k)
        ELSE Pow(23, k) \div (2 * Pow(20, k - 2))

C8_XpNeverDecreases ==
    [][\A u \in DOMAIN users : users'[u].xp >= users[u].xp]_vars

Request(ss) == [op |-> ss.op, user_id |-> ss.user_id,
                item_name |-> ss.item_name, quantity |-> ss.quantity]

\* the handler run to completion on db
Serve(db, r) ==
    IF r.op = "buy"
    THEN buy_item(db, r.user_id, r.item_name, r.quantity).db
    ELSE sell_item(db, r.user_id, r.item_name, r.quantity).db

\* C10 (as claimed): once two overlapping requests of one player have both
\* finished, gold and inventory are those of running them one after the other
\* in some order.
C10_Serialized ==
    (\A s \in SessionIds : sessions[s].pc = "done")
        => LET r1 == Request(sessions[1])
               r2 == Request(sessions[2])
               a == Serve(Serve(ConcDB, r1), r2)
               b == Serve(Serve(ConcDB, r2), r1)
           IN  \/ users = a.users /\ inventory = a.inventory
               \/ users = b.users /\ inventory = b.inventory

\* C9 (as claimed): a harvest leaves gold unchanged, and no request other than
\* a sell increases a player's gold.
C9_GoldOnlyFromSell ==
    [][/\ \A u \in UserIds, p \in PlotIds :
              Harvest(u, p) => \A v \in DOMAIN users : users'[v].gold = users[v].gold
       /\ \A v \in DOMAIN users :
              users'[v].gold > users[v].gold => resp'.op = "sell"]_vars

\* the details of the error responses (HTTPException) of register, plant,
\* harvest, buy, sell, upgrade_land and get_state
Rejections ==
    {"Username already registered", "Invalid user or plot", "Not enough seeds",
     "Nothing to harvest", "Invalid crop", "Crop not yet ready to harvest",
     "Invalid user or item", "Not enough gold", "Invalid sell request",
     "User not found", "LevelOrLandFull", "NotEnoughGold"}

\* C11: a request that is rejected with an error leaves every player's gold, xp,
\* level and unlocked_plots, every plot and every inventory entry as they were.
C11_NoPartialState ==
    [][resp'.detail \in Rejections => UNCHANGED <<users, plots, inventory>>]_vars

\* C11 witness: a harvest has just been refused on a growing plot of a player
\* who holds an inventory entry
C11_Witness ==
    /\ resp = [op |-> "harvest", detail |-> "Crop not yet ready to harvest"]
    /\ \E p \in DOMAIN plots :
          /\ plots[p].crop = "carrot"
          /\ HasRow(DB, plots[p].user_id, "carrot_seed")

\* the quantity of item_name a player holds in inventory table inv: that of the
\* entry, 0 when there is no entry
Held(inv, user_id, item_name) ==
    IF user_id \in DOMAIN inv /\ item_name \in DOMAIN inv[user_id]
    THEN inv[user_id][item_name]
    ELSE 0

\* C12: in every state, a sell of q units by a player who holds fewer than q is
\* rejected and leaves gold and inventory unchanged; a sell that succeeds credits
\* gold by exactly sell_price * q and lowers the held quantity by exactly q.
C12_SellContract ==
    \A u \in DOMAIN users, i \in BuyNames, q \in Quantities :
        LET out == sell_item(DB, u, i, q)
        IN  /\ Held(inventory, u, i) < q
                 => /\ out.detail = "Invalid sell request"
                    /\ out.db.users = users
                    /\ out.db.inventory = inventory
            /\ out.detail = "Item sold"
                 => /\ out.db.users[u].gold
                         = users[u].gold + ITEM_CONFIG[i].sell_price * q
                    /\ Held(out.db.inventory, u, i) = Held(inventory, u, i) - q

\* C12 witness: of two carrot_seed bought, one has just been sold (gold
\* 1000 - 20 + 5)
C12_Witness ==
    /\ resp = [op |-> "sell", detail |-> "Item sold"]
    /\ \E u \in DOMAIN users :
          /\ users[u].gold = DefaultGold - 15
          /\ Held(inventory, u, "carrot_seed") = 1

\* C13: an upgrade_land of a player whose unlocked_plots has reached
\* get_max_plots_by_level(level) is rejected with the handler's level-or-land
\* error, at every gold balance, and leaves users (gold, unlocked_plots) and
\* plots unchanged.
C13_LevelTooLow ==
    [][\A u \in UserIds :
          (/\ LandUpgrade(u)
           /\ HasUser(DB, u)
           /\ users[u].unlocked_plots >= get_max_plots_by_level(users[u].level))
              => /\ resp'.detail = "LevelOrLandFull"
                 /\ UNCHANGED <<users, plots>>]_vars

\* C13 witness: the upgrade has just been refused to a player whose balance
\* covers the cost of the next plot many times over
C13_Witness ==
    /\ resp = [op |-> "upgrade_land", detail |-> "LevelOrLandFull"]
    /\ \E u \in DOMAIN users :
          /\ users[u].gold > 100 * calc_upgrade_cost(users[u].unlocked_plots + 1)
          /\ users[u].unlocked_plots = get_max_plots_by_level(users[u].level)
          /\ users[u].level >= 3

C16_BuyContract ==
    [][\A u \in UserIds, i \in BuyNames, q \in Quantities :
          (Buy(u, i, q) /\ HasUser(DB, u) /\ i \in DOMAIN ITEM_CONFIG)
              => LET cost == ITEM_CONFIG[i].buy_price * q
                 IN  /\ resp'.detail = "Item purchased"
                          => /\ q >= 1
                             /\ users[u].gold >= cost
                             /\ users'[u].gold = users[u].gold - cost
                             /\ Held(inventory', u, i) = Held(inventory, u, i) + q
                     /\ users[u].gold < cost => resp'.detail = "Not enough gold"
                     /\ q < 1 => UNCHANGED <<users, inventory>>]_vars

\* C17: in every state, a plant request succeeds only for a plot of the acting
\* player and a held quantity >= 1 of the item "<crop>_seed"; a success lowers
\* that quantity by exactly 1, sets the plot's crop to the requested crop and its
\* planted_at to now, and changes no other plot, entry or user; every other
\* request is rejected as an invalid plot or for lack of seeds, with plots and
\* inventory unchanged.
C17_PlantContract ==
    \A u \in UserIds, p \in ShopPlotIds, c \in CropNames :
        LET out == plant(DB, u, p, c, now)
            seed == c \o "_seed"
            owns == /\ u \in DOMAIN users
                    /\ p \in DOMAIN plots
                    /\ plots[p].user_id = u
        IN  IF out.detail = "Crop planted"
            THEN /\ owns
                 /\ Held(inventory, u, seed) >= 1
                 /\ Held(out.db.inventory, u, seed) = Held(inventory, u, seed) - 1
                 /\ \A n \in DOMAIN inventory[u] \ {seed} :
                        Held(out.db.inventory, u, n) = inventory[u][n]
                 /\ out.db.plots = [plots EXCEPT ![p].crop = c, ![p].planted_at = now]
                 /\ out.db.users = users
            ELSE /\ out.detail \in {"Invalid user or plot", "Not enough seeds"}
                 /\ ~owns => out.detail = "Invalid user or plot"
                 /\ out.db.plots = plots
                 /\ out.db.inventory = inventory

\* C17 witness: the last of two carrot_seed has just been planted, at a time
\* after 0, on a plot of the player
C17_Witness ==
    /\ resp = [op |-> "plant", detail |-> "Crop planted"]
    /\ \E p \in DOMAIN plots :
          /\ plots[p].crop = "carrot"
          /\ plots[p].planted_at = now
          /\ now > 0
          /\ Held(inventory, plots[p].user_id, "carrot_seed") = 0
          /\ users[plots[p].user_id].gold = DefaultGold - 20

\* db with the player's entry for item_name deleted
WithoutRow(db, user_id, item_name) ==
    [db EXCEPT !.inventory[user_id] =
        [n \in (DOMAIN db.inventory[user_id]) \ {item_name} |->
            db.inventory[user_id][n]]]

\* C18 (as claimed): a sell or a plant served while the player's entry for the
\* item (for plant: the seed) is present with quantity 0 has the outcome, and
\* leaves the gold, holdings (and plots), that it has with the entry absent.
C18_AbsentAsZero ==
    [][/\ \A u \in UserIds, i \in BuyNames, q \in Quantities :
              (/\ Sell(u, i, q)
               /\ HasRow(DB, u, i)
               /\ Quantity(DB, u, i) = 0)
                  => LET other == sell_item(WithoutRow(DB, u, i), u, i, q)
                     IN  /\ resp'.detail = other.detail
                         /\ users' = other.db.users
                         /\ \A n \in DOMAIN ITEM_CONFIG :
                                Held(inventory', u, n) = Held(other.db.inventory, u, n)
       /\ \A u \in UserIds, p \in PlotIds, c \in CropNames :
              (/\ Plant(u, p, c)
               /\ HasRow(DB, u, SeedName(c))
               /\ Quantity(DB, u, SeedName(c)) = 0)
                  => LET other == plant(WithoutRow(DB, u, SeedName(c)), u, p, c, now)
                     IN  /\ resp'.detail = other.detail
                         /\ users' = other.db.users
                         /\ plots' = other.db.plots
                         /\ \A n \in DOMAIN ITEM_CONFIG :
                                Held(inventory', u, n) = Held(other.db.inventory, u, n)
      ]_vars

\* the plantings of HarvestDB that have been harvested: plots cleared since
Cleared == Cardinality({p \in HarvestPlotIds : plots[p].crop = None})

\* C19 (as claimed): once the harvest requests in flight have finished, the
\* carrots credited to the inventory and the xp granted are at most one carrot
\* and one carrot's xp for each planting that was harvested.
C19_HarvestedOnce ==
    (\A s \in SessionIds : sessions[s].pc \in {"idle", "done"})
        => /\ Held(inventory, 1, "carrot")
                 <= Held(HarvestDB.inventory, 1, "carrot") + Cleared
           /\ users[1].xp <= HarvestDB.users[1].xp
                                + ITEM_CONFIG["carrot"].xp * Cleared

\* the catalog items that grow: those with a grow_time
Crops == {i \in DOMAIN ITEM_CONFIG : "grow_time" \in DOMAIN ITEM_CONFIG[i]}

\* C20: every crop planted on a plot is a catalog item with a grow_time (carrot,
\* potato or wheat), every inventory item name is a catalog key, and no harvest
\* has answered 'Invalid crop'.
C20_PlantedCropsInCatalog ==
    /\ Crops = {"carrot", "potato", "wheat"}
    /\ \A p \in DOMAIN plots : plots[p].crop # None => plots[p].crop \in Crops
    /\ \A u \in DOMAIN inventory : DOMAIN inventory[u] \subseteq DOMAIN ITEM_CONFIG
    /\ resp.detail # "Invalid crop"

\* C20 witness: after a first carrot was harvested, a second has been planted
C20_Witness ==
    /\ resp = [op |-> "plant", detail |-> "Crop planted"]
    /\ \E p \in DOMAIN plots :
          /\ plots[p].crop = "carrot"
          /\ Held(inventory, plots[p].user_id, "carrot") >= 1
          /\ users[plots[p].user_id].xp = ITEM_CONFIG["carrot"].xp

====
